---- MODULE Spec2Model ----
(***************************************************************************)
(* innovation-calculator.py: the two formulas innovation_success_curve and *)
(* calculate_innovation_gospel_value, the callers that invoke them, and    *)
(* the demonstration block.                                                *)
(*                                                                         *)
(* Numbers.  A Python float is modelled by its exact value where that      *)
(* value is small, and by its magnitude class where it is huge:            *)
(*   [k |-> "num", n, d, sn, sd]   the real (n/d) * sqrt(sn/sd), reduced   *)
(*   [k |-> "big", sg, e]          a float of sign sg and decimal exponent *)
(*                                 e (about sg * 10^e), mantissa dropped   *)
(*   [k |-> "inf", sg]             an overflowed product                   *)
(*   [k |-> "nan"]                 inf * 0                                 *)
(*   [k |-> "complex"]             a negative base to a fractional power   *)
(* An exception is the value [k |-> "OverflowError"], [k |-> "TypeError"]  *)
(* or [k |-> "UnboundLocalError"]; a step that computes one raises it.     *)
(***************************************************************************)
EXTENDS Integers, Sequences, FiniteSets, TLC

VARIABLES call, pc, frame, ret, main, stdout

vars == <<call, pc, frame, ret, main, stdout>>

----------------------------------------------------------------------------
(* Bounds of the model.                                                    *)

\* constraint_complexity ranges over the multiples of 1/GridDen in
\* [-NegC, MaxC], and over two huge magnitudes.
GridDen == 4
NegC == 2
MaxC == 11
\* the three gospel inputs range over the tenths in [-NegTenths, MaxTenths]/10,
\* and over huge magnitudes.
NegTenths == 2
MaxTenths == 12
\* concurrent callers of SpecConc
NCallers == 2

\* Largest decimal exponent of a finite Python float (sys.float_info.max_10_exp).
MaxExp10 == 308

----------------------------------------------------------------------------
(* Exact arithmetic on the modelled numbers.                               *)

RECURSIVE GCD(_, _)
GCD(a, b) == IF b = 0 THEN a ELSE GCD(b, a % b)

AbsI(i) == IF i < 0 THEN -i ELSE i

SignI(i) == IF i < 0 THEN -1 ELSE IF i = 0 THEN 0 ELSE 1

\* (n/d) * sqrt(sn/sd), in lowest terms; d > 0, sn >= 0, sd > 0.
Surd(n, d, sn, sd) ==
  IF n = 0 \/ sn = 0
    THEN [k |-> "num", n |-> 0, d |-> 1, sn |-> 1, sd |-> 1]
    ELSE LET g == GCD(AbsI(n), d)
             h == GCD(sn, sd)
         IN  [k |-> "num", n |-> n \div g, d |-> d \div g,
              sn |-> sn \div h, sd |-> sd \div h]

R(n, d) == Surd(n, d, 1, 1)

Big(sg, e) == [k |-> "big", sg |-> sg, e |-> e]

Inf(sg) == [k |-> "inf", sg |-> sg]

NaN == [k |-> "nan"]

Complex == [k |-> "complex"]

OverflowError == [k |-> "OverflowError"]

TypeError == [k |-> "TypeError"]

UnboundLocalError == [k |-> "UnboundLocalError"]

\* a local that no statement has assigned yet
None == [k |-> "None"]

IsErr(v) == v.k \in {"OverflowError", "TypeError", "UnboundLocalError"}

\* reading the locals xs to compute v: reading an unassigned one raises
Reading(xs, v) == IF None \in xs THEN UnboundLocalError ELSE v

IsNum(v) == v.k = "num"

IsRat(v) == v.k = "num" /\ v.sn = 1 /\ v.sd = 1

Sign(v) == IF v.k = "num" THEN SignI(v.n) ELSE v.sg

\* n1/d1 < n2/d2 for nonnegative numerators
RatLess(n1, d1, n2, d2) ==
  LET g == GCD(d1, d2) IN n1 * (d2 \div g) < n2 * (d1 \div g)

\* |a| < |b| for two "num" values: directly when both are rational, by their
\* squares otherwise
MagLess(a, b) ==
  IF IsRat(a) /\ IsRat(b)
    THEN RatLess(AbsI(a.n), a.d, AbsI(b.n), b.d)
    ELSE RatLess(a.n * a.n * a.sn, a.d * a.d * a.sd,
                 b.n * b.n * b.sn, b.d * b.d * b.sd)

NumLess(a, b) ==
  LET sa == Sign(a)
      sb == Sign(b)
  IN  IF sa # sb THEN sa < sb
      ELSE IF sa = 0 THEN FALSE
      ELSE IF sa > 0 THEN MagLess(a, b)
      ELSE MagLess(b, a)

\* position of a value among the magnitude classes: 0 for a "num"
Tier(v) ==
  CASE v.k = "num" -> 0
    [] v.k = "big" -> v.sg * v.e
    [] v.k = "inf" -> v.sg * (MaxExp10 + 1)

\* the float comparison a < b (false when either is nan)
Less(a, b) ==
  IF a.k = "nan" \/ b.k = "nan" THEN FALSE
  ELSE IF a.k = "num" /\ b.k = "num" THEN NumLess(a, b)
  ELSE Tier(a) < Tier(b)

Leq(a, b) == a.k # "nan" /\ b.k # "nan" /\ ~Less(b, a)

Eq(a, b) == Leq(a, b) /\ Leq(b, a)

Neg(v) ==
  CASE v.k = "num" -> [v EXCEPT !.n = -v.n]
    [] v.k \in {"big", "inf"} -> [v EXCEPT !.sg = -v.sg]

\* abs(x)
Abs(v) == IF Sign(v) < 0 THEN Neg(v) ELSE v

\* a - b of two rationals, or of a rational and a huge float: a huge operand
\* absorbs a small one (2 - 1e200 == -1e200 in floats)
Sub(a, b) ==
  CASE IsRat(a) /\ IsRat(b) ->
         R(a.n * b.d - b.n * a.d, a.d * b.d)
    [] a.k = "big" /\ b.k = "num" -> a
    [] a.k = "num" /\ b.k = "big" -> Neg(b)

\* a * b
Mul(a, b) ==
  CASE a.k = "complex" \/ b.k = "complex" -> Complex
    [] a.k = "nan" \/ b.k = "nan" -> NaN
    [] a.k = "inf" \/ b.k = "inf" ->
         IF Sign(a) = 0 \/ Sign(b) = 0 THEN NaN ELSE Inf(Sign(a) * Sign(b))
    [] a.k = "big" /\ b.k = "big" ->
         IF a.e + b.e > MaxExp10 THEN Inf(a.sg * b.sg)
                                 ELSE Big(a.sg * b.sg, a.e + b.e)
    [] a.k = "big" /\ b.k = "num" ->
         IF b.n = 0 THEN R(0, 1) ELSE Big(a.sg * SignI(b.n), a.e)
    [] a.k = "num" /\ b.k = "big" ->
         IF a.n = 0 THEN R(0, 1) ELSE Big(b.sg * SignI(a.n), b.e)
    [] OTHER -> Surd(a.n * b.n, a.d * b.d, a.sn * b.sn, a.sd * b.sd)

\* x ** (y2/2) for the exponents of the source: y2 = 4 (** 2), 3 (** 1.5),
\* 1 (** 0.5).  A negative base to a fractional power is a complex number;
\* a result beyond the float range raises OverflowError.  The fractional
\* powers are taken of rationals only (the arguments of a call).
Pow(x, y2) ==
  CASE x.k = "big" ->
         IF (x.e * y2) \div 2 > MaxExp10 THEN OverflowError
         ELSE IF x.sg < 0 /\ y2 % 2 = 1 THEN Complex
         ELSE Big(1, (x.e * y2) \div 2)
    [] x.k = "num" /\ y2 = 4 -> Surd(x.n * x.n * x.sn, x.d * x.d * x.sd, 1, 1)
    [] IsRat(x) /\ y2 = 3 ->
         IF x.n < 0 THEN Complex ELSE Surd(x.n, x.d, x.n, x.d)
    [] IsRat(x) /\ y2 = 1 ->
         IF x.n < 0 THEN Complex ELSE Surd(1, 1, x.n, x.d)

\* max(0, x): the first argument unless the second is greater
Max0(x) == IF Less(R(0, 1), x) THEN x ELSE R(0, 1)

\* min(1.0, x): the first argument unless the second is smaller; comparing a
\* complex number raises TypeError
Min1(x) ==
  IF x.k = "complex" THEN TypeError
  ELSE IF Less(x, R(1, 1)) THEN x ELSE R(1, 1)

\* f"{v:.2f}" of a value in [0, 1], as a number of hundredths: the nearest
\* one, a tie going to the even one
Format2(v) ==
  CHOOSE h \in 0..100 :
    \/ Less(R(2 * h - 1, 200), v) /\ Less(v, R(2 * h + 1, 200))
    \/ h % 2 = 0 /\ (Eq(v, R(2 * h - 1, 200)) \/ Eq(v, R(2 * h + 1, 200)))

----------------------------------------------------------------------------
(* The literals of the source.                                             *)

UnderfitEdge == R(2, 1)
UnderfitBase == R(3, 10)
\* mutant: the overfitting rate used for the underfitting penalty
UnderfitRateAsOverfit == R(5, 100)

UnderfitRate == R(15, 100)
OverfitEdge == R(5, 1)
OverfitBase == R(2, 10)
OverfitRate == R(5, 100)
\* mutant: the optimum placed at 3
OptimalCentreAtThree == R(3, 1)

OptimalCentre == R(7, 2)
OptimalPeak == R(9, 10)
OptimalRate == R(1, 10)

\* the exponents, doubled: ** 1.5, ** 2, ** 0.5
MiracleExp2 == 3
CredibilityExp2 == 4
AdoptionExp2 == 1

----------------------------------------------------------------------------
(* The statements of innovation_success_curve, each an expression over the *)
(* locals it reads.                                                        *)

\* mutant: constraint_complexity <= 2
IsUnderfittingInclusive(c) == Leq(c, UnderfitEdge)

\* line 13: constraint_complexity < 2
IsUnderfitting(c) == Less(c, UnderfitEdge)

\* mutant: constraint_complexity >= 5
IsOverfittingInclusive(c) == Leq(OverfitEdge, c)

\* line 18: constraint_complexity > 5
IsOverfitting(c) == Less(OverfitEdge, c)

\* line 14: (2 - constraint_complexity) ** 2
UnderfittingPenalty(c) == Pow(Sub(UnderfitEdge, c), 4)

\* mutant: the floor of 0 left out
UnderfittingResultUnclamped(pen) == Sub(UnderfitBase, Mul(pen, UnderfitRate))

\* line 15: max(0, 0.3 - underfitting_penalty * 0.15)
UnderfittingResult(pen) == Max0(Sub(UnderfitBase, Mul(pen, UnderfitRate)))

\* line 19: (constraint_complexity - 5) ** 2
OverfittingPenalty(c) == Pow(Sub(c, OverfitEdge), 4)

\* line 20: max(0, 0.2 - overfitting_penalty * 0.05)
OverfittingResult(pen) == Max0(Sub(OverfitBase, Mul(pen, OverfitRate)))

\* line 24: abs(constraint_complexity - 3.5)
OptimalDistance(c) == Abs(Sub(c, OptimalCentre))

\* line 25: 0.9 - (optimal_distance ** 2 * 0.1)
OptimalResult(dist) ==
  LET sq == Pow(dist, 4)
  IN  IF IsErr(sq) THEN sq ELSE Sub(OptimalPeak, Mul(sq, OptimalRate))

\* the whole function, run alone: its return value or the exception it raises
innovation_success_curve(c) ==
  IF IsUnderfitting(c)
    THEN LET pen == UnderfittingPenalty(c)
         IN  IF IsErr(pen) THEN pen ELSE UnderfittingResult(pen)
  ELSE IF IsOverfitting(c)
    THEN LET pen == OverfittingPenalty(c)
         IN  IF IsErr(pen) THEN pen ELSE OverfittingResult(pen)
  ELSE OptimalResult(OptimalDistance(c))

----------------------------------------------------------------------------
(* The statements of calculate_innovation_gospel_value.                    *)

\* mutant: the power taken of the absolute value
MiracleImpactOfAbs(p) == Pow(Abs(p), MiracleExp2)

\* line 31: paradox_strength ** 1.5
MiracleImpact(p) == Pow(p, MiracleExp2)

\* mutant: the credibility left unsquared
GospelCredibilityUnsquared(q) == q

\* line 32: peer_credibility ** 2
GospelCredibility(q) == Pow(q, CredibilityExp2)

\* line 33: customer_readiness ** 0.5
AdoptionRate(r) == Pow(r, AdoptionExp2)

\* mutant: the adoption rate left out of the product
GospelProductWithoutAdoption(m, g, a) == Mul(m, g)

\* line 35: miracle_impact * gospel_credibility * adoption_rate
GospelProduct(m, g, a) == Mul(Mul(m, g), a)

\* mutant: max in place of min
ClampWithMax(v) ==
  IF v.k = "complex" THEN TypeError
  ELSE IF Less(R(1, 1), v) THEN v ELSE R(1, 1)

\* line 36: min(1.0, gospel_value)
Clamp(v) == Min1(v)

\* the whole function, run alone: its return value or the exception it raises
calculate_innovation_gospel_value(p, q, r) ==
  LET m == MiracleImpact(p)
      g == GospelCredibility(q)
      a == AdoptionRate(r)
  IN  IF IsErr(m) THEN m
      ELSE IF IsErr(g) THEN g
      ELSE IF IsErr(a) THEN a
      ELSE Clamp(GospelProduct(m, g, a))

----------------------------------------------------------------------------
(* Callers.  Each call runs the function's statements one at a time on the *)
(* locals of its own frame; statements of different callers interleave.    *)

Callers == 1..NCallers

LocalNames ==
  {"constraint_complexity", "underfitting_penalty", "overfitting_penalty",
   "optimal_distance", "paradox_strength", "peer_credibility",
   "customer_readiness", "miracle_impact", "gospel_credibility",
   "adoption_rate", "gospel_value"}

\* the locals of a call before its first statement
NoLocals == [x \in LocalNames |-> None]

NoCall == [fn |-> "none", args |-> <<>>]

\* mutant: the locals kept in one place for all calls, as module globals
FrameShared(k) == 1

\* the frame that holds the locals of caller k's call: one per call
Frame(k) == k

Local(k, x) == frame[Frame(k)][x]

\* a statement `x = v` of caller k's call, then line `next`; an exception
\* raised while computing v propagates out of the call
Assign(k, x, v, next) ==
  IF IsErr(v)
    THEN /\ pc' = [pc EXCEPT ![k] = "raised"]
         /\ ret' = [ret EXCEPT ![k] = v]
         /\ frame' = [frame EXCEPT ![Frame(k)] = NoLocals]
    ELSE /\ pc' = [pc EXCEPT ![k] = next]
         /\ frame' = [frame EXCEPT ![Frame(k)][x] = v]
         /\ UNCHANGED ret

\* a statement `return v`
Return(k, v) ==
  /\ pc' = [pc EXCEPT ![k] = IF IsErr(v) THEN "raised" ELSE "returned"]
  /\ ret' = [ret EXCEPT ![k] = v]
  /\ frame' = [frame EXCEPT ![Frame(k)] = NoLocals]

\* an `if` of caller k's call
Branch(k, cond, then, else) ==
  /\ pc' = [pc EXCEPT ![k] = IF IsErr(cond) THEN "raised"
                             ELSE IF cond.b THEN then ELSE else]
  /\ ret' = IF IsErr(cond) THEN [ret EXCEPT ![k] = cond] ELSE ret
  /\ frame' = IF IsErr(cond) THEN [frame EXCEPT ![Frame(k)] = NoLocals]
                             ELSE frame

Bool(b) == [k |-> "bool", b |-> b]

\* caller k calls innovation_success_curve(c)
CallCurve(k, c) ==
  /\ pc[k] = "idle"
  /\ call' = [call EXCEPT ![k] = [fn |-> "curve", args |-> <<c>>]]
  /\ frame' = [frame EXCEPT
                 ![Frame(k)] = [NoLocals EXCEPT !.constraint_complexity = c]]
  /\ pc' = [pc EXCEPT ![k] = "L13"]
  /\ UNCHANGED <<ret, main, stdout>>

Line13(k) ==
  /\ pc[k] = "L13"
  /\ LET c == Local(k, "constraint_complexity")
     IN  Branch(k, Reading({c}, Bool(IsUnderfitting(c))), "L14", "L18")
  /\ UNCHANGED <<call, main, stdout>>

Line14(k) ==
  /\ pc[k] = "L14"
  /\ LET c == Local(k, "constraint_complexity")
     IN  Assign(k, "underfitting_penalty",
                Reading({c}, UnderfittingPenalty(c)), "L15")
  /\ UNCHANGED <<call, main, stdout>>

Line15(k) ==
  /\ pc[k] = "L15"
  /\ LET pen == Local(k, "underfitting_penalty")
     IN  Return(k, Reading({pen}, UnderfittingResult(pen)))
  /\ UNCHANGED <<call, main, stdout>>

Line18(k) ==
  /\ pc[k] = "L18"
  /\ LET c == Local(k, "constraint_complexity")
     IN  Branch(k, Reading({c}, Bool(IsOverfitting(c))), "L19", "L24")
  /\ UNCHANGED <<call, main, stdout>>

Line19(k) ==
  /\ pc[k] = "L19"
  /\ LET c == Local(k, "constraint_complexity")
     IN  Assign(k, "overfitting_penalty",
                Reading({c}, OverfittingPenalty(c)), "L20")
  /\ UNCHANGED <<call, main, stdout>>

Line20(k) ==
  /\ pc[k] = "L20"
  /\ LET pen == Local(k, "overfitting_penalty")
     IN  Return(k, Reading({pen}, OverfittingResult(pen)))
  /\ UNCHANGED <<call, main, stdout>>

Line24(k) ==
  /\ pc[k] = "L24"
  /\ LET c == Local(k, "constraint_complexity")
     IN  Assign(k, "optimal_distance", Reading({c}, OptimalDistance(c)), "L25")
  /\ UNCHANGED <<call, main, stdout>>

Line25(k) ==
  /\ pc[k] = "L25"
  /\ LET dist == Local(k, "optimal_distance")
     IN  Return(k, Reading({dist}, OptimalResult(dist)))
  /\ UNCHANGED <<call, main, stdout>>

\* caller k calls calculate_innovation_gospel_value(p, q, r)
CallGospel(k, p, q, r) ==
  /\ pc[k] = "idle"
  /\ call' = [call EXCEPT ![k] = [fn |-> "gospel", args |-> <<p, q, r>>]]
  /\ frame' = [frame EXCEPT
                 ![Frame(k)] = [NoLocals EXCEPT !.paradox_strength = p,
                                                !.peer_credibility = q,
                                                !.customer_readiness = r]]
  /\ pc' = [pc EXCEPT ![k] = "L31"]
  /\ UNCHANGED <<ret, main, stdout>>

Line31(k) ==
  /\ pc[k] = "L31"
  /\ LET p == Local(k, "paradox_strength")
     IN  Assign(k, "miracle_impact", Reading({p}, MiracleImpact(p)), "L32")
  /\ UNCHANGED <<call, main, stdout>>

Line32(k) ==
  /\ pc[k] = "L32"
  /\ LET q == Local(k, "peer_credibility")
     IN  Assign(k, "gospel_credibility",
                Reading({q}, GospelCredibility(q)), "L33")
  /\ UNCHANGED <<call, main, stdout>>

Line33(k) ==
  /\ pc[k] = "L33"
  /\ LET r == Local(k, "customer_readiness")
     IN  Assign(k, "adoption_rate", Reading({r}, AdoptionRate(r)), "L35")
  /\ UNCHANGED <<call, main, stdout>>

Line35(k) ==
  /\ pc[k] = "L35"
  /\ LET m == Local(k, "miracle_impact")
         g == Local(k, "gospel_credibility")
         a == Local(k, "adoption_rate")
     IN  Assign(k, "gospel_value",
                Reading({m, g, a}, GospelProduct(m, g, a)), "L36")
  /\ UNCHANGED <<call, main, stdout>>

Line36(k) ==
  /\ pc[k] = "L36"
  /\ LET v == Local(k, "gospel_value")
     IN  Return(k, Reading({v}, Clamp(v)))
  /\ UNCHANGED <<call, main, stdout>>

\* the caller takes the result (or handles the exception) and is free to
\* call again
Done(k) ==
  /\ pc[k] \in {"returned", "raised"}
  /\ pc' = [pc EXCEPT ![k] = "idle"]
  /\ call' = [call EXCEPT ![k] = NoCall]
  /\ ret' = [ret EXCEPT ![k] = None]
  /\ UNCHANGED <<frame, main, stdout>>

----------------------------------------------------------------------------
(* The demonstration block (lines 38-49), run as a script: module-level    *)
(* code, which runs while no caller is inside a call.                      *)

Quiescent == \A k \in Callers : pc[k] = "idle"

\* lines 43-45: constraint_complexity = 3; print(f"...{success_prob:.2f}")
DemoCurve ==
  /\ main = "L43"
  /\ Quiescent
  /\ LET success_prob == innovation_success_curve(R(3, 1))
     IN  stdout' = Append(stdout, Format2(success_prob))
  /\ main' = "L48"
  /\ UNCHANGED <<call, pc, frame, ret>>

\* lines 48-49: calculate_innovation_gospel_value(0.8, 0.9, 0.7), printed
DemoGospel ==
  /\ main = "L48"
  /\ Quiescent
  /\ LET gospel_value ==
           calculate_innovation_gospel_value(R(8, 10), R(9, 10), R(7, 10))
     IN  stdout' = Append(stdout, Format2(gospel_value))
  /\ main' = "exit"
  /\ UNCHANGED <<call, pc, frame, ret>>

----------------------------------------------------------------------------
(* Inputs.                                                                 *)

CurveInputs ==
  {R(n, GridDen) : n \in (-NegC * GridDen)..(MaxC * GridDen)}
    \cup {Big(1, 150), Big(-1, 150), Big(1, 200), Big(-1, 200)}

Tenths == {R(n, 10) : n \in (-NegTenths)..MaxTenths}

ParadoxInputs == Tenths \cup {Big(1, 200), Big(1, 300)}

PeerInputs == Tenths \cup {Big(1, 100), Big(1, 200)}

ReadinessInputs == Tenths \cup {Big(1, 300)}

\* the arguments of the concurrent callers
ConcCurveInputs == {R(1, 1), R(3, 1), R(7, 1)}

ConcParadoxInputs == {R(-1, 10), R(1, 2)}

ConcPeerInputs == {R(1, 2), R(2, 1)}

ConcReadinessInputs == {R(1, 4), R(4, 1)}

----------------------------------------------------------------------------

Init ==
  /\ call = [k \in Callers |-> NoCall]
  /\ pc = [k \in Callers |-> "idle"]
  /\ frame = [f \in Callers |-> NoLocals]
  /\ ret = [k \in Callers |-> None]
  /\ main = "L43"
  /\ stdout = <<>>

Body(k) ==
  \/ Line13(k) \/ Line14(k) \/ Line15(k)
  \/ Line18(k) \/ Line19(k) \/ Line20(k)
  \/ Line24(k) \/ Line25(k)
  \/ Line31(k) \/ Line32(k) \/ Line33(k) \/ Line35(k) \/ Line36(k)
  \/ Done(k)

\* one caller with arguments over the whole grid, and the script
Next ==
  \/ \E c \in CurveInputs : CallCurve(1, c)
  \/ \E p \in ParadoxInputs, q \in PeerInputs, r \in ReadinessInputs :
       CallGospel(1, p, q, r)
  \/ Body(1)
  \/ DemoCurve
  \/ DemoGospel

Spec == Init /\ [][Next]_vars

\* NCallers concurrent callers
NextConc ==
  \E k \in Callers :
    \/ \E c \in ConcCurveInputs : CallCurve(k, c)
    \/ \E p \in ConcParadoxInputs, q \in ConcPeerInputs,
          r \in ConcReadinessInputs : CallGospel(k, p, q, r)
    \/ Body(k)

SpecConc == Init /\ [][NextConc]_vars

----------------------------------------------------------------------------
(* Properties.                                                             *)

Zero == R(0, 1)

One == R(1, 1)

\* caller k's call of fn has ended: returned a value or raised
Ended(k, fn) == call[k].fn = fn /\ pc[k] \in {"returned", "raised"}

Returned(k, fn) == call[k].fn = fn /\ pc[k] = "returned"

Raised(k, fn) == call[k].fn = fn /\ pc[k] = "raised"

\* x ** (y2/2) lies beyond the float range
PowOverflows(x, y2) == x.k = "big" /\ (x.e * y2) \div 2 > MaxExp10

\* the three-region reference of the specification, over the reals; at a
\* huge magnitude, far outside [0, 7], the reference is 0
ReferenceCurve(c) ==
  IF c.k = "big" THEN Zero
  ELSE IF Less(c, R(2, 1))
    THEN LET r == Sub(R(3, 10), Mul(Mul(Sub(R(2, 1), c), Sub(R(2, 1), c)),
                                    R(15, 100)))
         IN  IF Less(r, Zero) THEN Zero ELSE r
  ELSE IF Leq(R(2, 1), c) /\ Leq(c, R(5, 1))
    THEN LET dist == IF Less(c, R(7, 2)) THEN Sub(R(7, 2), c)
                                         ELSE Sub(c, R(7, 2))
         IN  Sub(R(9, 10), Mul(Mul(dist, dist), R(1, 10)))
  ELSE LET r == Sub(R(2, 10), Mul(Mul(Sub(c, R(5, 1)), Sub(c, R(5, 1))),
                                  R(5, 100)))
       IN  IF Less(r, Zero) THEN Zero ELSE r

C2_GospelBounded ==
  \A k \in Callers :
    Returned(k, "gospel") => Leq(Zero, ret[k]) /\ Leq(ret[k], One)

C2_Witness ==
  \E k \in Callers :
    /\ Returned(k, "gospel")
    /\ call[k].args = <<R(12, 10), R(12, 10), R(12, 10)>>
    /\ ret[k] = One

\* C3 as stated: calculate_innovation_gospel_value raises exactly when
\* paradox_strength or customer_readiness is negative; every other call
\* returns a number.
C3_Original ==
  \A k \in Callers :
    Ended(k, "gospel") =>
      (pc[k] = "raised" <=>
         \/ Less(call[k].args[1], Zero)
         \/ Less(call[k].args[3], Zero))

\* C3, amended: the call raises whenever paradox_strength or
\* customer_readiness is negative, whatever the other inputs are; the only
\* other error is the OverflowError of paradox_strength ** 1.5 or
\* peer_credibility ** 2 leaving the float range; every other call returns
\* a number.
C3_GospelErrors ==
  \A k \in Callers :
    Ended(k, "gospel") =>
      LET p == call[k].args[1]
          q == call[k].args[2]
          r == call[k].args[3]
      IN  /\ pc[k] = "raised" <=>
               \/ Less(p, Zero)
               \/ Less(r, Zero)
               \/ PowOverflows(p, 3)
               \/ PowOverflows(q, 4)
          /\ pc[k] = "raised" => ret[k] \in {TypeError, OverflowError}
          /\ pc[k] = "returned" => ret[k].k = "num"

C3_Witness ==
  \E k \in Callers :
    /\ Raised(k, "gospel")
    /\ call[k].args = <<R(-1, 10), R(5, 10), R(5, 10)>>
    /\ ret[k] = TypeError

\* C4 as stated: innovation_success_curve has no error conditions, and for
\* every input c it returns r with 0 <= r <= 0.9.
C4_Original ==
  \A k \in Callers :
    Ended(k, "curve") =>
      /\ pc[k] = "returned"
      /\ Leq(Zero, ret[k])
      /\ Leq(ret[k], R(9, 10))

\* C4, amended: innovation_success_curve returns r with 0 <= r <= 0.9 for
\* every input (negative ones included) whose squared penalty fits in a
\* float, and raises OverflowError for the inputs whose squared penalty
\* does not.
C4_CurveBounded ==
  \A k \in Callers :
    Ended(k, "curve") =>
      IF PowOverflows(call[k].args[1], 4)
        THEN pc[k] = "raised" /\ ret[k] = OverflowError
        ELSE /\ pc[k] = "returned"
             /\ Leq(Zero, ret[k])
             /\ Leq(ret[k], R(9, 10))

C4_Witness ==
  \E k \in Callers :
    /\ Returned(k, "curve")
    /\ call[k].args[1] = R(-1, 1)
    /\ ret[k] = Zero

\* C5: for c in [2, 5] the result is at most 0.9, and at the midpoint
\* c = 3.5 it is exactly 0.9.
C5_OptimalPeak ==
  \A k \in Callers :
    Returned(k, "curve") =>
      LET c == call[k].args[1]
      IN  /\ Leq(R(2, 1), c) /\ Leq(c, R(5, 1)) => Leq(ret[k], R(9, 10))
          /\ Eq(c, R(7, 2)) => Eq(ret[k], R(9, 10))

C5_Witness ==
  \E k \in Callers :
    /\ Returned(k, "curve")
    /\ call[k].args[1] = R(7, 2)
    /\ ret[k] = R(9, 10)

\* 0.8^1.5 * 0.9^2 * 0.7^0.5, the nonnegative number whose square is
\* 0.8^3 * 0.9^4 * 0.7 = 23514624 / 10^8
ReferenceExample == Surd(1, 1, 23514624, 100000000)

\* C6 as stated: the demonstration's gospel value is
\* min(1.0, 0.8^1.5 * 0.9^2 * 0.7^0.5) and prints as 0.44.
C6_Original ==
  main = "exit" =>
    /\ Eq(calculate_innovation_gospel_value(R(8, 10), R(9, 10), R(7, 10)),
          ReferenceExample)
    /\ stdout[2] = 44

\* C6, amended: the demonstration's gospel value is
\* min(1.0, 0.8^1.5 * 0.9^2 * 0.7^0.5), which is below 1.0 and about 0.48:
\* the demonstration prints 0.48.
C6_ReferenceExample ==
  main = "exit" =>
    /\ Eq(calculate_innovation_gospel_value(R(8, 10), R(9, 10), R(7, 10)),
          ReferenceExample)
    /\ Less(ReferenceExample, One)
    /\ stdout[2] = 48

C6_Witness == main = "exit" /\ Len(stdout) = 2 /\ stdout[2] = 48

\* C7: the value returned is 1.0 when the raw product
\* paradox_strength^1.5 * peer_credibility^2 * customer_readiness^0.5 is at
\* least 1.0, and the raw product itself when that is below 1.0; at
\* (1.0, 1.0, 1.0) it is 1.0.
C7_Saturation ==
  \A k \in Callers :
    Returned(k, "gospel") =>
      LET raw == Mul(Mul(Pow(call[k].args[1], 3), Pow(call[k].args[2], 4)),
                     Pow(call[k].args[3], 1))
      IN  /\ Leq(One, raw) => ret[k] = One
          /\ Less(raw, One) => ret[k] = raw
          /\ call[k].args = <<One, One, One>> => ret[k] = One

C7_Witness ==
  \E k \in Callers :
    /\ Returned(k, "gospel")
    /\ call[k].args = <<One, One, One>>
    /\ ret[k] = One

RunAlone(k) ==
  IF call[k].fn = "curve"
    THEN innovation_success_curve(call[k].args[1])
    ELSE calculate_innovation_gospel_value(call[k].args[1], call[k].args[2],
                                           call[k].args[3])

C9_SameAsAlone ==
  \A k \in Callers :
    pc[k] \in {"returned", "raised"} => ret[k] = RunAlone(k)

\* a step leaves untouched the locals, arguments and result of every caller
\* that did not take it
C9_Isolation ==
  \A j \in Callers :
    pc'[j] = pc[j] =>
      /\ frame'[Frame(j)] = frame[Frame(j)]
      /\ call'[j] = call[j]
      /\ ret'[j] = ret[j]

\* C9: under any interleaving of concurrent callers, each call yields
\* exactly what it yields when run alone with the same arguments, and no
\* step of one call changes anything another call reads.
C9_NoSharedState == []C9_SameAsAlone /\ [][C9_Isolation]_vars

C9_Witness ==
  \E j, k \in Callers :
    /\ j # k
    /\ pc[j] = "returned" /\ call[j].fn = "curve"
    /\ pc[k] = "L35"

\* C10: at the boundaries the optimal-zone value is taken, 0.675 at c = 2
\* and at c = 5, while every c < 2 yields at most 0.3 and every c > 5 at
\* most 0.2: a jump of at least 0.375 at c = 2 and 0.475 at c = 5.
C10_Discontinuity ==
  \A k \in Callers :
    Returned(k, "curve") =>
      LET c == call[k].args[1]
      IN  /\ Eq(c, R(2, 1)) \/ Eq(c, R(5, 1)) => Eq(ret[k], R(675, 1000))
          /\ Less(c, R(2, 1)) =>
               /\ Leq(ret[k], R(3, 10))
               /\ Leq(R(375, 1000), Sub(R(675, 1000), ret[k]))
          /\ Less(R(5, 1), c) =>
               /\ Leq(ret[k], R(2, 10))
               /\ Leq(R(475, 1000), Sub(R(675, 1000), ret[k]))

C10_Witness ==
  \E k \in Callers :
    /\ Returned(k, "curve")
    /\ call[k].args[1] = R(2, 1)
    /\ ret[k] = R(675, 1000)

====
